---------------------------- MODULE Spec2Model ----------------------------
(***************************************************************************)
(* Model of the quantify_cirq utilities and of the T-gate-removal          *)
(* experiment driver.                                                      *)
(*                                                                         *)
(*   utils/counting_utils.py   count_num_gates, count_op_depth, count_ops, *)
(*                             count_t_depth_of_circuit, count_t_of_circuit*)
(*   utils/help_utils.py       create_binary_strings                       *)
(*   tests/test_BB_remove_T.py state_preparation, test_remove_T,           *)
(*                             choose_decomposition, create_BB_circuit and *)
(*                             the __main__ experiment loop                *)
(*                                                                         *)
(* A circuit is a sequence of moments; a moment is a sequence of           *)
(* operations in the order in which iterating the moment yields them; an   *)
(* operation is a record [gate, qubits, is_gate_op], is_gate_op being the  *)
(* outcome of isinstance(operation, cirq.GateOperation).  A Python string  *)
(* is a sequence of one-character strings.                                 *)
(***************************************************************************)
EXTENDS Integers, Sequences, FiniteSets, TLC

VARIABLES
    circuit,        \* utils: the circuit handed to the counting functions
    ret,            \* utils: the last call, [fn, arg, val]
    prep,           \* state_preparation: the BucketBrigade object, [qubits, circuit]
    prep_call,      \* state_preparation: the last call, [arg, exc]
    pc,             \* driver: the position in the __main__ block
    args,           \* driver: the parsed command line, [decomp_scenario, inplace]
    build,          \* driver: what the BucketBrigade class builds, [body, order]
    n_qubits,       \* driver: the outer loop variable
    decomp_scenario,\* driver: the scenario choose_decomposition returned
    save_data,      \* driver: the three result columns
    initial_states, \* driver: the list the inner loop iterates over
    it,             \* driver: index in initial_states of the inner loop's next item
    initial_state,  \* driver: the inner loop variable
    bbcircuit,      \* driver: the circuit of this iteration, [qubits, circuit]
    bbcircuit_modified, \* driver: its copy with T gates removed
    freq_origin,    \* driver: measurement result of the original circuit
    freq_mod,       \* driver: measurement result of the modified circuit
    saved           \* driver: the data frames written, one per n_qubits

callVars == <<circuit, ret>>
prepVars == <<prep, prep_call>>
loopVars == <<n_qubits, decomp_scenario, save_data, initial_states, it, initial_state,
              bbcircuit, bbcircuit_modified, freq_origin, freq_mod, saved>>
driverVars == <<pc, args, build, loopVars>>
vars == <<callVars, prepVars, driverVars>>

----------------------------------------------------------------------------
(* Bounds *)

\* longest circuit, in moments, handed to the counting functions
MaxMoments == 2

\* largest n handed to create_binary_strings
MaxN == 3

\* most qubits of a circuit handed to state_preparation on its own
MaxPrepQubits == 2

\* longest initial_state handed to state_preparation on its own
MaxStateLen == 3

\* state_preparation is not called on a circuit of this many moments
MaxPrepMoments == 3

----------------------------------------------------------------------------
(* Operations, moments, circuits *)

GateOp(g, qs) == [gate |-> g, qubits |-> qs, is_gate_op |-> TRUE]

\* an operation that carries a gate but is no cirq.GateOperation
OtherOp(g, qs) == [gate |-> g, qubits |-> qs, is_gate_op |-> FALSE]

Max(S) == CHOOSE x \in S : \A y \in S : y <= x

\* the operations the counted circuits are built from
UtilOps ==
    { GateOp("T", {"a0"}), GateOp("Tinv", {"a0"}), GateOp("H", {"a0"}),
      OtherOp("T", {"a0"}),
      GateOp("T", {"a1"}), GateOp("Tinv", {"a1"}),
      GateOp("CNOT", {"a0", "a1"}) }

\* cirq.Moment: operations on pairwise disjoint qubits
IsMoment(ops) ==
    \A i, j \in 1..Len(ops) : i # j => ops[i].qubits \cap ops[j].qubits = {}

UtilMoments ==
    { ops \in {<<>>} \cup { <<a>> : a \in UtilOps } \cup { <<a, b>> : a, b \in UtilOps }
        : IsMoment(ops) }

RECURSIVE SeqsUpTo(_, _)
SeqsUpTo(S, n) ==
    IF n = 0 THEN { <<>> }
    ELSE LET shorter == SeqsUpTo(S, n - 1)
         IN  shorter \cup { Append(s, x) : s \in { t \in shorter : Len(t) = n - 1 }, x \in S }

UtilCircuits == SeqsUpTo(UtilMoments, MaxMoments)

\* the gate-type lists handed to count_op_depth and count_ops
T_TYPES == {"T", "Tinv"}

GateTypeSets == { T_TYPES, {"H"}, {"T"}, {"CNOT", "H"}, {} }

----------------------------------------------------------------------------
(* utils/counting_utils.py *)

\* line 19 / 39: isinstance(operation, cirq.GateOperation) and operation.gate in gate_types
Matches(operation, gate_types) ==
    operation.is_gate_op /\ operation.gate \in gate_types

RECURSIVE NumGatesFrom(_, _)
NumGatesFrom(c, m) ==
    IF m > Len(c) THEN 0 ELSE Len(c[m]) + NumGatesFrom(c, m + 1)

count_num_gates(c) == NumGatesFrom(c, 1)

\* the inner loop of count_op_depth over one moment, from operation k on:
\* 1 at the first matching operation (op_depth += 1; break), 0 when the
\* moment is exhausted
RECURSIVE MomentDepthNoBreak(_, _, _)
MomentDepthNoBreak(moment, gate_types, k) ==
    IF k > Len(moment) THEN 0
    ELSE (IF Matches(moment[k], gate_types) THEN 1 ELSE 0)
         + MomentDepthNoBreak(moment, gate_types, k + 1)

RECURSIVE MomentDepth(_, _, _)
MomentDepth(moment, gate_types, k) ==
    IF k > Len(moment) THEN 0
    ELSE IF Matches(moment[k], gate_types) THEN 1
    ELSE MomentDepth(moment, gate_types, k + 1)

RECURSIVE OpDepthFrom(_, _, _)
OpDepthFrom(c, gate_types, m) ==
    IF m > Len(c) THEN 0
    ELSE MomentDepth(c[m], gate_types, 1) + OpDepthFrom(c, gate_types, m + 1)

count_op_depth(c, gate_types) == OpDepthFrom(c, gate_types, 1)

\* the loop body of count_ops with the position taken before it is advanced
OpsStepPositionLate(acc, operation, gate_types) ==
    IF Matches(operation, gate_types)
    THEN [op_count |-> acc.op_count + 1, position |-> acc.position + 1,
          ops_indices |-> Append(acc.ops_indices, acc.position)]
    ELSE [acc EXCEPT !.position = acc.position + 1]

\* the loops of count_ops as one scan: acc = [op_count, position, ops_indices]
OpsStepBreakless(acc, operation, gate_types) ==
    LET position == acc.position + 1
    IN  IF Matches(operation, gate_types)
        THEN [op_count |-> acc.op_count + 1, position |-> position,
              ops_indices |-> Append(acc.ops_indices, position)]
        ELSE [acc EXCEPT !.position = position]

RECURSIVE OpsScanMoment(_, _, _, _)
OpsScanMoment(acc, moment, gate_types, k) ==
    IF k > Len(moment) THEN acc
    ELSE OpsScanMoment(OpsStepBreakless(acc, moment[k], gate_types),
                       moment, gate_types, k + 1)

\* count_ops with the break of count_op_depth left in
RECURSIVE OpsScanMomentBreaking(_, _, _, _)
OpsScanMomentBreaking(acc, moment, gate_types, k) ==
    IF k > Len(moment) THEN acc
    ELSE IF Matches(moment[k], gate_types)
         THEN OpsStepBreakless(acc, moment[k], gate_types)
         ELSE OpsScanMomentBreaking(OpsStepBreakless(acc, moment[k], gate_types),
                                    moment, gate_types, k + 1)

RECURSIVE OpsScanBreaking(_, _, _, _)
OpsScanBreaking(acc, c, gate_types, m) ==
    IF m > Len(c) THEN acc
    ELSE OpsScanBreaking(OpsScanMomentBreaking(acc, c[m], gate_types, 1),
                         c, gate_types, m + 1)

RECURSIVE OpsScan(_, _, _, _)
OpsScan(acc, c, gate_types, m) ==
    IF m > Len(c) THEN acc
    ELSE OpsScan(OpsScanMoment(acc, c[m], gate_types, 1), c, gate_types, m + 1)

OpsResult(acc, return_indices) ==
    IF return_indices THEN <<acc.op_count, acc.ops_indices>> ELSE acc.op_count

OpsStart == [op_count |-> 0, position |-> 0, ops_indices |-> <<>>]

count_ops_breaking(c, gate_types, return_indices) ==
    OpsResult(OpsScanBreaking(OpsStart, c, gate_types, 1), return_indices)

count_ops(c, gate_types, return_indices) ==
    OpsResult(OpsScan(OpsStart, c, gate_types, 1), return_indices)

count_t_depth_only_T(c) == count_op_depth(c, {"T"})

count_t_depth_of_circuit(c) == count_op_depth(c, T_TYPES)

count_t_of_circuit(c) == count_ops(c, T_TYPES, FALSE)

----------------------------------------------------------------------------
(* utils/help_utils.py *)

\* str(i) for the digits 0 and 1
Str(i) == CASE i = 0 -> "0" [] i = 1 -> "1"

\* [x + [y] for y in pool], for one x
RECURSIVE WithEach(_, _, _)
WithEach(x, pool, k) ==
    IF k > Len(pool) THEN <<>>
    ELSE <<Append(x, pool[k])>> \o WithEach(x, pool, k + 1)

\* [x + [y] for x in result for y in pool]
RECURSIVE ProductStep(_, _, _)
ProductStep(result, pool, i) ==
    IF i > Len(result) THEN <<>>
    ELSE WithEach(result[i], pool, 1) \o ProductStep(result, pool, i + 1)

\* itertools.product(pool, repeat=n): result = [[]], then one step per pool
RECURSIVE Product(_, _)
Product(pool, n) ==
    IF n = 0 THEN << <<>> >> ELSE ProductStep(Product(pool, n - 1), pool, 1)

\* string = ''; for i in item: string = string + str(i)
RECURSIVE JoinDigits(_, _)
JoinDigits(item, k) ==
    IF k > Len(item) THEN <<>> ELSE <<Str(item[k])>> \o JoinDigits(item, k + 1)

create_binary_strings_reversed(n) ==
    LET bin_array == Product(<<1, 0>>, n)
    IN  [i \in 1..Len(bin_array) |-> JoinDigits(bin_array[i], 1)]

create_binary_strings(n) ==
    LET bin_array == Product(<<0, 1>>, n)
    IN  [i \in 1..Len(bin_array) |-> JoinDigits(bin_array[i], 1)]

----------------------------------------------------------------------------
(* tests/test_BB_remove_T.py: state_preparation *)

\* cirq.NamedQubit("a" + str(i)), i = 0, 1, ...
NamedQubit(i) == <<"a0", "a1", "a2", "a3", "a4">>[i + 1]

\* the qubits list of create_BB_circuit / main
AddressQubits(n) == [i \in 1..n |-> NamedQubit(i - 1)]

\* the loop of state_preparation from character i on (i counts from 1, the
\* code from 0): ValueError at a character other than '0' and '1',
\* IndexError at a '1' for which qubits has no entry, else the operations
\* collected in init_ops
RECURSIVE PrepLoopCheckLast(_, _, _, _)
PrepLoopCheckLast(qubits, state_str, i, init_ops) ==
    IF i > Len(state_str)
    THEN IF \E k \in 1..Len(state_str) : state_str[k] \notin {"0", "1"}
         THEN [exc |-> "ValueError", init_ops |-> init_ops]
         ELSE [exc |-> "none", init_ops |-> init_ops]
    ELSE IF state_str[i] = "1"
         THEN IF i > Len(qubits)
              THEN [exc |-> "IndexError", init_ops |-> init_ops]
              ELSE PrepLoopCheckLast(qubits, state_str, i + 1,
                                     Append(init_ops, GateOp("X", {qubits[i]})))
         ELSE PrepLoopCheckLast(qubits, state_str, i + 1, init_ops)

RECURSIVE PrepLoopOnesAsZeros(_, _, _, _)
PrepLoopOnesAsZeros(qubits, state_str, i, init_ops) ==
    IF i > Len(state_str) THEN [exc |-> "none", init_ops |-> init_ops]
    ELSE IF state_str[i] \notin {"0", "1"}
         THEN [exc |-> "ValueError", init_ops |-> init_ops]
         ELSE IF state_str[i] = "0"
              THEN IF i > Len(qubits)
                   THEN [exc |-> "IndexError", init_ops |-> init_ops]
                   ELSE PrepLoopOnesAsZeros(qubits, state_str, i + 1,
                                            Append(init_ops, GateOp("X", {qubits[i]})))
              ELSE PrepLoopOnesAsZeros(qubits, state_str, i + 1, init_ops)

RECURSIVE PrepLoop(_, _, _, _)
PrepLoop(qubits, state_str, i, init_ops) ==
    IF i > Len(state_str) THEN [exc |-> "none", init_ops |-> init_ops]
    ELSE IF state_str[i] \notin {"0", "1"}
         THEN [exc |-> "ValueError", init_ops |-> init_ops]
         ELSE IF state_str[i] = "1"
              THEN IF i > Len(qubits)
                   THEN [exc |-> "IndexError", init_ops |-> init_ops]
                   ELSE PrepLoop(qubits, state_str, i + 1,
                                 Append(init_ops, GateOp("X", {qubits[i]})))
              ELSE PrepLoop(qubits, state_str, i + 1, init_ops)

\* state_preparation(circuit, state_str): the exception raised, if any,
\* and the object afterwards; the moment is inserted at index 0 only when
\* the loop ran to its end
state_preparation(bb, state_str) ==
    LET r == PrepLoop(bb.qubits, state_str, 1, <<>>)
    IN  IF r.exc # "none"
        THEN [exc |-> r.exc, bb |-> bb]
        ELSE [exc |-> "none", bb |-> [bb EXCEPT !.circuit = <<r.init_ops>> \o @]]

----------------------------------------------------------------------------
(* tests/test_BB_remove_T.py: choose_decomposition *)

\* Python values handed in as decomp_ID: a type and the value's text
PyStr(text) == [t |-> "str", v |-> text]
PyInt(text) == [t |-> "int", v |-> text]
PyNone == [t |-> "NoneType", v |-> "None"]

\* a == b: values of different types are unequal, 1 == '1' is False
PyEq(a, b) == a.t = b.t /\ a.v = b.v

\* bb.BucketBrigadeDecompType([fan_in_decomp, mem_decomp, fan_out_decomp], parallel_toffolis)
BucketBrigadeDecompType(decomps, flag) ==
    [fan_in |-> decomps[1], mem |-> decomps[2], fan_out |-> decomps[3],
     parallel_toffolis |-> flag]

Raised(exc) == [exc |-> exc, value |-> <<>>]
Returned(value) == [exc |-> "none", value |-> value]

\* choose_decomposition that compares the ID by its text alone
choose_decomposition_untyped(decomp_ID) ==
    IF decomp_ID.v = "1"
    THEN Returned(BucketBrigadeDecompType(
             <<"ZERO_ANCILLA_TDEPTH_4_COMPUTE", "ZERO_ANCILLA_TDEPTH_4",
               "ZERO_ANCILLA_TDEPTH_0_UNCOMPUTE">>, TRUE))
    ELSE IF decomp_ID.v = "2"
    THEN Returned(BucketBrigadeDecompType(
             <<"NO_DECOMP", "ZERO_ANCILLA_TDEPTH_4", "NO_DECOMP">>, TRUE))
    ELSE IF decomp_ID.v = "3"
    THEN Returned(BucketBrigadeDecompType(
             <<"FOUR_ANCILLA_TDEPTH_1_A", "FOUR_ANCILLA_TDEPTH_1_A",
               "FOUR_ANCILLA_TDEPTH_1_A">>, FALSE))
    ELSE Raised("ValueError")

choose_decomposition(decomp_ID) ==
    IF PyEq(decomp_ID, PyStr("1"))
    THEN Returned(BucketBrigadeDecompType(
             <<"ZERO_ANCILLA_TDEPTH_4_COMPUTE", "ZERO_ANCILLA_TDEPTH_4",
               "ZERO_ANCILLA_TDEPTH_0_UNCOMPUTE">>, TRUE))
    ELSE IF PyEq(decomp_ID, PyStr("2"))
    THEN Returned(BucketBrigadeDecompType(
             <<"NO_DECOMP", "ZERO_ANCILLA_TDEPTH_4", "NO_DECOMP">>, TRUE))
    ELSE IF PyEq(decomp_ID, PyStr("3"))
    THEN Returned(BucketBrigadeDecompType(
             <<"FOUR_ANCILLA_TDEPTH_1_A", "FOUR_ANCILLA_TDEPTH_1_A",
               "FOUR_ANCILLA_TDEPTH_1_A">>, FALSE))
    ELSE Raised("ValueError")

\* the IDs choose_decomposition is called with
DecompIDs ==
    { PyStr("1"), PyStr("2"), PyStr("3"), PyStr("4"), PyStr("0"), PyStr(""),
      PyStr("01"), PyStr(" 1"), PyNone, PyInt("1"), PyInt("2"), PyInt("3") }

----------------------------------------------------------------------------
(* The BucketBrigade class as its callers in tests/test_BB_remove_T.py use it *)

\* the bodies a BucketBrigade may build over its addressing qubits: gates
\* of Toffoli decompositions on the addressing qubits, a memory qubit and
\* the target.  Kind 3 leaves the Toffoli undecomposed and touches only the
\* first two addressing qubits.
BBBody(qubits, kind) ==
    CASE kind = 1 ->
           << <<GateOp("H", {"t"})>>,
              [i \in 1..Len(qubits) |-> GateOp("T", {qubits[i]})],
              <<GateOp("CNOT", {qubits[1], "t"})>>,
              <<GateOp("Tinv", {qubits[1]})>> >>
      [] kind = 2 ->
           << <<GateOp("T", {qubits[1]})>>,
              <<GateOp("CNOT", {qubits[1], qubits[2]})>>,
              <<GateOp("Tinv", {qubits[2]}), GateOp("T", {"m0"})>> >>
      [] kind = 3 ->
           << <<GateOp("TOFFOLI", {qubits[1], qubits[2], "t"})>> >>

BBKinds == {1, 2, 3}

Reverse(seq) == [i \in 1..Len(seq) |-> seq[Len(seq) + 1 - i]]

\* the orders in which all_qubits() may list the qubits
QubitOrders == {"as given", "reversed"}

\* bb.BucketBrigade(qubits, decomp_scenario = decomp_scenario)
BucketBrigade(qubits, scenario, made) ==
    [qubits |-> qubits, circuit |-> BBBody(qubits, made.body)]

\* BucketBrigade.all_qubits()
all_qubits(bb, made) ==
    (IF made.order = "as given" THEN bb.qubits ELSE Reverse(bb.qubits)) \o <<"m0", "t">>

\* BucketBrigade.copy(): a circuit of its own
copy(bb) == bb

\* the T and T-inverse gate operations of circuit c, in the order of the
\* moments, as positions <<m, k>>
RECURSIVE TOpsFrom(_, _, _)
TOpsFrom(c, m, k) ==
    IF m > Len(c) THEN <<>>
    ELSE IF k > Len(c[m]) THEN TOpsFrom(c, m + 1, 1)
    ELSE (IF Matches(c[m][k], T_TYPES) THEN << <<m, k>> >> ELSE <<>>)
         \o TOpsFrom(c, m, k + 1)

RECURSIVE DropOps(_, _, _, _)
DropOps(moment, m, k, dropped) ==
    IF k > Len(moment) THEN <<>>
    ELSE (IF <<m, k>> \in dropped THEN <<>> ELSE <<moment[k]>>)
         \o DropOps(moment, m, k + 1, dropped)

\* circuit c without the T gates numbered in removed (1 is the first T gate)
WithoutT(c, removed) ==
    LET t_ops   == TOpsFrom(c, 1, 1)
        dropped == { t_ops[i] : i \in removed \cap (1..Len(t_ops)) }
    IN  [m \in 1..Len(c) |-> DropOps(c[m], m, 1, dropped)]

\* BucketBrigade.remove_T_gates(percentage, inplace): the object afterwards
\* and the value returned; removed stands for the gates the percentage picks
remove_T_gates(bb, removed, inplace) ==
    IF inplace
    THEN [self |-> [bb EXCEPT !.circuit = WithoutT(@, removed)], value |-> <<>>]
    ELSE [self |-> bb, value |-> WithoutT(bb.circuit, removed)]

\* BucketBrigade.set_circuit(circuit)
set_circuit(bb, c) == [bb EXCEPT !.circuit = c]

----------------------------------------------------------------------------
(* tests/test_BB_remove_T.py: test_remove_T, create_BB_circuit *)

\* cirq.measure(qubit, key=qubit.name)
measure(qubit) == GateOp("M", {qubit})

\* cirq.Circuit.append(op), insert strategy EARLIEST: the operation goes
\* into the moment after the last one that touches its qubits, a new moment
\* at the end if there is none
circuit_append(c, op) ==
    LET touching == { m \in 1..Len(c) :
                        \E k \in 1..Len(c[m]) : c[m][k].qubits \cap op.qubits # {} }
        at       == IF touching = {} THEN 1 ELSE Max(touching) + 1
    IN  IF at > Len(c) THEN Append(c, <<op>>)
        ELSE [c EXCEPT ![at] = Append(@, op)]

\* lines 140-147: the measurement loop from character i of state_str on;
\* acc = [o, m, names_o, names_m], the two objects and the two key lists
RECURSIVE MeasureLoop(_, _, _, _)
MeasureLoop(acc, state_str, i, made) ==
    IF i > Len(state_str) THEN acc
    ELSE LET q_o == all_qubits(acc.o, made)[i]
             q_m == all_qubits(acc.m, made)[i]
         IN  MeasureLoop(
                 [o |-> [acc.o EXCEPT !.circuit = circuit_append(@, measure(q_o))],
                  m |-> [acc.m EXCEPT !.circuit = circuit_append(@, measure(q_m))],
                  names_o |-> Append(acc.names_o, q_o),
                  names_m |-> Append(acc.names_m, q_m)],
                 state_str, i + 1, made)

\* execute_circuit(circuit, measurement_qubit_names): the simulator's
\* histogram, of which the model keeps the keys it is taken over
execute_circuit(c, measurement_qubit_names) == [keys |-> measurement_qubit_names]

\* the tail of test_remove_T, lines 139-159, on the original and the modified object
MeasureAndExecute(original, modified, state_str, made) ==
    LET done == MeasureLoop([o |-> original, m |-> modified,
                             names_o |-> <<>>, names_m |-> <<>>], state_str, 1, made)
    IN  [exc |-> "none",
         bbcircuit |-> done.o,
         bbcircuit_modified |-> done.m,
         freq_origin |-> execute_circuit(done.o.circuit, done.names_o),
         freq_mod |-> execute_circuit(done.m.circuit, done.names_m)]

TestFailed(exc, bb) ==
    [exc |-> exc, bbcircuit |-> bb, bbcircuit_modified |-> <<>>,
     freq_origin |-> <<>>, freq_mod |-> <<>>]

\* test_remove_T with the T gates removed from the original object
test_remove_T_on_original(bb, state_str, removed, inplace, made) ==
    LET prepared == state_preparation(bb, state_str)
        taken    == copy(prepared.bb)
        modified == IF inplace
                    THEN remove_T_gates(prepared.bb, removed, inplace).self
                    ELSE set_circuit(prepared.bb,
                                     remove_T_gates(prepared.bb, removed, inplace).value)
    IN  IF prepared.exc # "none" THEN TestFailed(prepared.exc, prepared.bb)
        ELSE MeasureAndExecute(modified, taken, state_str, made)

\* test_remove_T(bbcircuit, initial_state, percentage, inplace, repetitions):
\* state preparation on the object handed in, then the copy, then the removal
\* on the copy, then the measurements and the two executions
test_remove_T(bb, state_str, removed, inplace, made) ==
    LET prepared == state_preparation(bb, state_str)
        taken    == copy(prepared.bb)
        modified == IF inplace
                    THEN remove_T_gates(taken, removed, inplace).self
                    ELSE set_circuit(taken, remove_T_gates(taken, removed, inplace).value)
    IN  IF prepared.exc # "none" THEN TestFailed(prepared.exc, prepared.bb)
        ELSE MeasureAndExecute(prepared.bb, modified, state_str, made)

\* create_BB_circuit(n_qubits, decomp_scenario)
create_BB_circuit(n, scenario, made) ==
    BucketBrigade(AddressQubits(n), scenario, made)

----------------------------------------------------------------------------
(* tests/test_BB_remove_T.py: the __main__ block *)

\* for n_qubits in range(2, 4)
NQubitsFirst == 2
NQubitsStop == 4

\* --decomp_scenario as argparse hands it over: a string, or None by default
ArgDecompIDs == { PyStr("1"), PyStr("2"), PyStr("3"), PyStr("4"), PyNone }

NoSaveData == [input |-> <<>>, output_original |-> <<>>, output_modified |-> <<>>]

\* lines 258-265 and the call of line 268: one pass of the outer loop up to the inner loop
EnterOuterLoop ==
    /\ pc = "outer"
    /\ LET chosen == choose_decomposition(args.decomp_scenario)
       IN  IF chosen.exc # "none"
           THEN /\ pc' = "error"
                /\ UNCHANGED <<decomp_scenario, save_data, initial_states, it>>
           ELSE /\ decomp_scenario' = chosen.value
                /\ save_data' = NoSaveData
                /\ initial_states' = create_binary_strings(n_qubits)
                /\ it' = 1
                /\ pc' = "inner"
    /\ UNCHANGED <<callVars, prepVars, args, build, n_qubits, initial_state, bbcircuit,
                   bbcircuit_modified, freq_origin, freq_mod, saved>>

\* CreateCircuit with the circuit built once per n_qubits, ahead of the inner loop
CreateCircuitOnce ==
    /\ pc = "inner"
    /\ it <= Len(initial_states)
    /\ initial_state' = initial_states[it]
    /\ bbcircuit' = IF it = 1 THEN create_BB_circuit(n_qubits, decomp_scenario, build)
                    ELSE bbcircuit
    /\ pc' = "created"
    /\ UNCHANGED <<callVars, prepVars, args, build, n_qubits, decomp_scenario, save_data,
                   initial_states, it, bbcircuit_modified, freq_origin, freq_mod, saved>>

\* lines 268-272: the inner loop takes its next initial state and builds a circuit for it
CreateCircuit ==
    /\ pc = "inner"
    /\ it <= Len(initial_states)
    /\ initial_state' = initial_states[it]
    /\ bbcircuit' = create_BB_circuit(n_qubits, decomp_scenario, build)
    /\ pc' = "created"
    /\ UNCHANGED <<callVars, prepVars, args, build, n_qubits, decomp_scenario, save_data,
                   initial_states, it, bbcircuit_modified, freq_origin, freq_mod, saved>>

\* line 275: test_remove_T; the percentage picks the T gates to remove
RunTestRemoveT ==
    /\ pc = "created"
    /\ \E removed \in SUBSET (1..Len(TOpsFrom(bbcircuit.circuit, 1, 1))) :
         LET r == test_remove_T(bbcircuit, initial_state, removed, args.inplace, build)
         IN  /\ bbcircuit' = r.bbcircuit
             /\ bbcircuit_modified' = r.bbcircuit_modified
             /\ freq_origin' = r.freq_origin
             /\ freq_mod' = r.freq_mod
             /\ pc' = IF r.exc = "none" THEN "tested" ELSE "error"
    /\ UNCHANGED <<callVars, prepVars, args, build, n_qubits, decomp_scenario, save_data,
                   initial_states, it, initial_state, saved>>

\* lines 278-280: the three columns get their entries
GatherResults ==
    /\ pc = "tested"
    /\ save_data' = [input |-> Append(save_data.input, initial_state),
                     output_original |-> Append(save_data.output_original, freq_origin),
                     output_modified |-> Append(save_data.output_modified, freq_mod)]
    /\ it' = it + 1
    /\ pc' = "inner"
    /\ UNCHANGED <<callVars, prepVars, args, build, n_qubits, decomp_scenario,
                   initial_states, initial_state, bbcircuit, bbcircuit_modified,
                   freq_origin, freq_mod, saved>>

\* lines 283-285: the inner loop is over, the data frame is written, the
\* outer loop goes on
SaveResults ==
    /\ pc = "inner"
    /\ it > Len(initial_states)
    /\ saved' = Append(saved, [n_qubits |-> n_qubits, data |-> save_data])
    /\ n_qubits' = n_qubits + 1
    /\ pc' = IF n_qubits + 1 < NQubitsStop THEN "outer" ELSE "done"
    /\ UNCHANGED <<callVars, prepVars, args, build, decomp_scenario, save_data,
                   initial_states, it, initial_state, bbcircuit, bbcircuit_modified,
                   freq_origin, freq_mod>>

Next ==
    \/ EnterOuterLoop
    \/ CreateCircuit
    \/ RunTestRemoveT
    \/ GatherResults
    \/ SaveResults

----------------------------------------------------------------------------
(* The driver at rest *)

DriverIdle ==
    /\ pc = "idle"
    /\ args = <<>>
    /\ build = <<>>
    /\ n_qubits = 0
    /\ decomp_scenario = <<>>
    /\ save_data = <<>>
    /\ initial_states = <<>>
    /\ it = 0
    /\ initial_state = <<>>
    /\ bbcircuit = <<>>
    /\ bbcircuit_modified = <<>>
    /\ freq_origin = <<>>
    /\ freq_mod = <<>>
    /\ saved = <<>>

----------------------------------------------------------------------------
(* The utility functions applied to bounded inputs *)

NoCall == [fn |-> "none", arg |-> <<>>, val |-> 0]

\* The functions are pure: a behaviour draws its inputs and makes one call.

CallCountNumGates ==
    /\ ret = NoCall
    /\ ret' = [fn |-> "count_num_gates", arg |-> <<>>, val |-> count_num_gates(circuit)]
    /\ UNCHANGED <<circuit, prepVars, driverVars>>

CallCountOpDepth ==
    /\ ret = NoCall
    /\ \E gate_types \in GateTypeSets :
         /\ ret' = [fn |-> "count_op_depth", arg |-> <<gate_types>>,
                    val |-> count_op_depth(circuit, gate_types)]
         /\ UNCHANGED <<circuit, prepVars, driverVars>>

CallCountOps ==
    /\ ret = NoCall
    /\ \E gate_types \in GateTypeSets, return_indices \in BOOLEAN :
         /\ ret' = [fn |-> "count_ops", arg |-> <<gate_types, return_indices>>,
                    val |-> count_ops(circuit, gate_types, return_indices)]
         /\ UNCHANGED <<circuit, prepVars, driverVars>>

CallCountTDepth ==
    /\ ret = NoCall
    /\ ret' = [fn |-> "count_t_depth_of_circuit", arg |-> <<>>,
               val |-> count_t_depth_of_circuit(circuit)]
    /\ UNCHANGED <<circuit, prepVars, driverVars>>

CallCountT ==
    /\ ret = NoCall
    /\ ret' = [fn |-> "count_t_of_circuit", arg |-> <<>>,
               val |-> count_t_of_circuit(circuit)]
    /\ UNCHANGED <<circuit, prepVars, driverVars>>

CallCreateBinaryStrings ==
    /\ ret = NoCall
    /\ \E n \in 0..MaxN :
         /\ ret' = [fn |-> "create_binary_strings", arg |-> <<n>>,
                    val |-> create_binary_strings(n)]
         /\ UNCHANGED <<circuit, prepVars, driverVars>>

CallChooseDecomposition ==
    /\ ret = NoCall
    /\ \E decomp_ID \in DecompIDs :
         /\ ret' = [fn |-> "choose_decomposition", arg |-> <<decomp_ID>>,
                    val |-> choose_decomposition(decomp_ID)]
         /\ UNCHANGED <<circuit, prepVars, driverVars>>

NextCalls ==
    \/ CallCountNumGates
    \/ CallCountOpDepth
    \/ CallCountOps
    \/ CallCountTDepth
    \/ CallCountT
    \/ CallCreateBinaryStrings
    \/ CallChooseDecomposition

----------------------------------------------------------------------------
(* state_preparation applied to bounded inputs *)

\* the strings handed to state_preparation: binary ones and ones holding
\* another character
PrepStrings == SeqsUpTo({"0", "1", "x"}, MaxStateLen)

\* circuits the object holds before the first call
PrepBodies ==
    { <<>>,
      << <<GateOp("H", {"a0"})>> >>,
      << <<GateOp("T", {"a0"})>>, <<GateOp("CNOT", {"a0", "a1"}), GateOp("X", {"a2"})>> >> }

NoPrepCall == [arg |-> <<>>, exc |-> "not called"]

CallStatePreparation ==
    /\ Len(prep.circuit) < MaxPrepMoments
    /\ \E s \in PrepStrings :
         LET r == state_preparation(prep, s)
         IN  /\ prep' = r.bb
             /\ prep_call' = [arg |-> s, exc |-> r.exc]
    /\ UNCHANGED <<callVars, driverVars>>

NextPrep == CallStatePreparation

----------------------------------------------------------------------------
(* Specifications *)

NoObject == [qubits |-> <<>>, circuit |-> <<>>]

\* the functions of utils/ applied to bounded inputs
InitCalls ==
    /\ circuit \in UtilCircuits
    /\ ret = NoCall
    /\ prep = NoObject
    /\ prep_call = NoPrepCall
    /\ DriverIdle

SpecCalls == InitCalls /\ [][NextCalls]_vars

\* state_preparation applied to bounded inputs, also repeatedly
InitPrep ==
    /\ circuit = <<>>
    /\ ret = NoCall
    /\ \E n \in 1..MaxPrepQubits, body \in PrepBodies :
         prep = [qubits |-> AddressQubits(n), circuit |-> body]
    /\ prep_call = NoPrepCall
    /\ DriverIdle

SpecPrep == InitPrep /\ [][NextPrep]_vars

\* the experiment driver, for every command line and every BucketBrigade build
Init ==
    /\ circuit = <<>>
    /\ ret = NoCall
    /\ prep = NoObject
    /\ prep_call = NoPrepCall
    /\ pc = "outer"
    /\ args \in [decomp_scenario : ArgDecompIDs, inplace : BOOLEAN]
    /\ build \in [body : BBKinds, order : QubitOrders]
    /\ n_qubits = NQubitsFirst
    /\ decomp_scenario = <<>>
    /\ save_data = NoSaveData
    /\ initial_states = <<>>
    /\ it = 0
    /\ initial_state = <<>>
    /\ bbcircuit = <<>>
    /\ bbcircuit_modified = <<>>
    /\ freq_origin = <<>>
    /\ freq_mod = <<>>
    /\ saved = <<>>

Spec == Init /\ [][Next]_vars

----------------------------------------------------------------------------
(* Claims *)

\* the positions <<m, k>> of the operations of circuit c that satisfy P
Positions(c, P(_)) ==
    { mk \in UNION { { <<m, k>> : k \in 1..Len(c[m]) } : m \in 1..Len(c) } :
        P(c[mk[1]][mk[2]]) }

\* the moments of circuit c holding a gate operation whose gate is in G
MomentsWith(c, G) ==
    { m \in 1..Len(c) : \E k \in 1..Len(c[m]) : c[m][k].is_gate_op /\ c[m][k].gate \in G }

\* C1: count_op_depth(circuit, G) is the number of moments that hold at
\* least one gate operation whose gate is in G: a moment with several
\* matching operations contributes 1, a moment with none contributes 0.
C1_OpDepthCountsMoments ==
    ret.fn = "count_op_depth" =>
        ret.val = Cardinality(MomentsWith(circuit, ret.arg[1]))

\* C1 witness: a moment with two matching operations and a moment with none,
\* counted as depth 1
C1_Witness ==
    /\ ret.fn = "count_op_depth"
    /\ ret.arg[1] = {"T", "Tinv"}
    /\ Len(circuit) = 2
    /\ Cardinality(Positions(<<circuit[1]>>, LAMBDA o : o.is_gate_op /\ o.gate \in ret.arg[1])) = 2
    /\ Len(circuit[2]) > 0
    /\ 2 \notin MomentsWith(circuit, ret.arg[1])
    /\ ret.val = 1

AllQubits(c) ==
    UNION { UNION { c[m][k].qubits : k \in 1..Len(c[m]) } : m \in 1..Len(c) }

RECURSIVE WireDepthOps(_, _, _)
WireDepthOps(d, moment, k) ==
    IF k > Len(moment) THEN d
    ELSE LET op  == moment[k]
             before == Max({0} \cup { d[q] : q \in op.qubits })
             out    == IF op.is_gate_op /\ op.gate \in {"T", "Tinv"}
                       THEN before + 1 ELSE before
         IN  WireDepthOps([q \in DOMAIN d |-> IF q \in op.qubits THEN out ELSE d[q]],
                          moment, k + 1)

RECURSIVE WireDepth(_, _, _)
WireDepth(d, c, m) ==
    IF m > Len(c) THEN d ELSE WireDepth(WireDepthOps(d, c[m], 1), c, m + 1)

TCriticalPath(c) ==
    LET d == WireDepth([q \in AllQubits(c) |-> 0], c, 1)
    IN  Max({0} \cup { d[q] : q \in DOMAIN d })

IsBinary(str) == \A i \in 1..Len(str) : str[i] \in {"0", "1"}

\* the positions of str holding '1'
Ones(str) == { i \in 1..Len(str) : str[i] = "1" }

\* after is before with one moment inserted at index 0, holding an X gate on
\* qubits[i] for exactly the positions i with str[i] = '1' and nothing else
\* (position i counts from 1 here, from 0 in the code)
PrepMomentInserted(before, after, str) ==
    /\ after.qubits = before.qubits
    /\ Len(after.circuit) = Len(before.circuit) + 1
    /\ \A k \in 1..Len(before.circuit) : after.circuit[k + 1] = before.circuit[k]
    /\ LET moment == after.circuit[1]
       IN  /\ Len(moment) = Cardinality(Ones(str))
           /\ \A i \in Ones(str) :
                /\ i <= Len(before.qubits)
                /\ \E k \in 1..Len(moment) : moment[k].qubits = {before.qubits[i]}
           /\ \A k \in 1..Len(moment) :
                /\ moment[k].gate = "X" /\ moment[k].is_gate_op
                /\ \E i \in Ones(str) :
                     i <= Len(before.qubits) /\ moment[k].qubits = {before.qubits[i]}

\* C4 as stated: state_preparation(circuit, s), for s made only of '0' and
\* '1', inserts exactly one new moment at index 0, holding an X gate on
\* qubits[i] for exactly the positions i with s[i] = '1', and keeps the
\* existing moments, in order, shifted by one.
C4_PrepInsertsMoment ==
    [][ IsBinary(prep_call'.arg) => PrepMomentInserted(prep, prep', prep_call'.arg) ]_prepVars

\* C4 amended: the same, for s made only of '0' and '1' whose '1's all stand
\* at positions for which circuit.qubits has an entry (so whenever s is no
\* longer than qubits); for a '1' beyond the qubits the call raises
\* IndexError and inserts nothing.
C4_PrepInsertsMomentInRange ==
    [][ IsBinary(prep_call'.arg) =>
          IF \A i \in Ones(prep_call'.arg) : i <= Len(prep.qubits)
          THEN /\ prep_call'.exc = "none"
               /\ PrepMomentInserted(prep, prep', prep_call'.arg)
          ELSE /\ prep_call'.exc = "IndexError"
               /\ prep' = prep ]_prepVars

\* C4 witness: '10' prepared on two qubits in front of two existing moments
C4_Witness ==
    /\ prep_call = [arg |-> <<"1", "0">>, exc |-> "none"]
    /\ Len(prep.qubits) = 2
    /\ Len(prep.circuit) = 3
    /\ prep.circuit[1] = << [gate |-> "X", qubits |-> {"a0"}, is_gate_op |-> TRUE] >>
    /\ prep.circuit[2][1].gate = "T"
    /\ prep.circuit[3][1].gate = "CNOT"

\* C5 as stated: state_preparation raises ValueError whenever s holds a
\* character other than '0' and '1', at whatever position, and then inserts
\* no moment.
C5_PrepRejectsNonBinary ==
    [][ ~IsBinary(prep_call'.arg) =>
          prep_call'.exc = "ValueError" /\ prep'.circuit = prep.circuit ]_prepVars

\* the first position of str holding a character other than '0' and '1'
FirstBad(str) ==
    CHOOSE i \in 1..Len(str) :
        str[i] \notin {"0", "1"} /\ \A h \in 1..(i - 1) : str[h] \in {"0", "1"}

\* C5 amended: when s holds a character other than '0' and '1',
\* state_preparation raises ValueError, unless a '1' stands before the first
\* such character at a position for which circuit.qubits has no entry (which
\* needs s longer than qubits), when it raises IndexError; either way no
\* moment is inserted.
C5_PrepRejectsNonBinaryInRange ==
    [][ ~IsBinary(prep_call'.arg) =>
          /\ prep_call'.exc =
               IF \E i \in Ones(prep_call'.arg) :
                     i < FirstBad(prep_call'.arg) /\ i > Len(prep.qubits)
               THEN "IndexError" ELSE "ValueError"
          /\ prep' = prep ]_prepVars

\* C5 witness: the bad character is the last one, after a '1' that already
\* earned its X gate; the circuit is the one held before the call
C5_Witness ==
    /\ prep_call = [arg |-> <<"1", "x">>, exc |-> "ValueError"]
    /\ Len(prep.qubits) = 2
    /\ Len(prep.circuit) = 2
    /\ prep.circuit[1][1].gate = "T"

\* C6: choose_decomposition maps ID '1' to (ZERO_ANCILLA_TDEPTH_4_COMPUTE,
\* ZERO_ANCILLA_TDEPTH_4, ZERO_ANCILLA_TDEPTH_0_UNCOMPUTE, True), '2' to
\* (NO_DECOMP, ZERO_ANCILLA_TDEPTH_4, NO_DECOMP, True) and '3' to
\* (FOUR_ANCILLA_TDEPTH_1_A three times, False), each as (fan-in, memory,
\* fan-out, flag); for every other input, None and the integers 1, 2, 3
\* included, it raises ValueError and returns no scenario.
C6_ChooseDecomposition ==
    ret.fn = "choose_decomposition" =>
        LET id == ret.arg[1]
            r  == ret.val
        IN  IF id.t = "str" /\ id.v \in {"1", "2", "3"}
            THEN /\ r.exc = "none"
                 /\ id.v = "1" =>
                      r.value = [fan_in |-> "ZERO_ANCILLA_TDEPTH_4_COMPUTE",
                                 mem |-> "ZERO_ANCILLA_TDEPTH_4",
                                 fan_out |-> "ZERO_ANCILLA_TDEPTH_0_UNCOMPUTE",
                                 parallel_toffolis |-> TRUE]
                 /\ id.v = "2" =>
                      r.value = [fan_in |-> "NO_DECOMP",
                                 mem |-> "ZERO_ANCILLA_TDEPTH_4",
                                 fan_out |-> "NO_DECOMP",
                                 parallel_toffolis |-> TRUE]
                 /\ id.v = "3" =>
                      r.value = [fan_in |-> "FOUR_ANCILLA_TDEPTH_1_A",
                                 mem |-> "FOUR_ANCILLA_TDEPTH_1_A",
                                 fan_out |-> "FOUR_ANCILLA_TDEPTH_1_A",
                                 parallel_toffolis |-> FALSE]
            ELSE r.exc = "ValueError" /\ r.value = <<>>

\* C6 witness: the integer 2 is refused
C6_Witness ==
    /\ ret.fn = "choose_decomposition"
    /\ ret.arg[1] = [t |-> "int", v |-> "2"]
    /\ ret.val.exc = "ValueError"

\* "0" < "1"
Digit(ch) == IF ch = "0" THEN 0 ELSE 1

\* the number a binary string spells
RECURSIVE BinValue(_)
BinValue(str) ==
    IF str = <<>> THEN 0
    ELSE 2 * BinValue(SubSeq(str, 1, Len(str) - 1)) + Digit(str[Len(str)])

\* str1 < str2 in lexicographic order
LexLess(str1, str2) ==
    \E k \in 1..Len(str2) :
        /\ \A h \in 1..(k - 1) : h <= Len(str1) /\ str1[h] = str2[h]
        /\ \/ k = Len(str1) + 1
           \/ k <= Len(str1) /\ Digit(str1[k]) < Digit(str2[k])

\* C9: create_binary_strings(n) returns exactly 2^n strings, each of length
\* n over '0' and '1', pairwise distinct, covering every binary string of
\* length n, in ascending lexicographic (binary counting) order; for n = 0
\* the one-element list holding the empty string.
C9_BinaryStrings ==
    ret.fn = "create_binary_strings" =>
        LET n   == ret.arg[1]
            out == ret.val
        IN  /\ Len(out) = 2 ^ n
            /\ \A i \in 1..Len(out) :
                 Len(out[i]) = n /\ \A k \in 1..n : out[i][k] \in {"0", "1"}
            /\ \A i, j \in 1..Len(out) : i # j => out[i] # out[j]
            /\ \A str \in [1..n -> {"0", "1"}] : \E i \in 1..Len(out) : out[i] = str
            /\ \A i, j \in 1..Len(out) : i < j => LexLess(out[i], out[j])
            /\ \A i \in 1..Len(out) : BinValue(out[i]) = i - 1
            /\ n = 0 => out = << <<>> >>

\* C9 witness: the eight strings of length 3, from 000 to 111
C9_Witness ==
    /\ ret.fn = "create_binary_strings"
    /\ ret.arg[1] = 3
    /\ Len(ret.val) = 8
    /\ ret.val[1] = <<"0", "0", "0">>
    /\ ret.val[4] = <<"0", "1", "1">>
    /\ ret.val[8] = <<"1", "1", "1">>

\* the operations of a moment that satisfy P, in the moment's order
Keep(moment, P(_)) == SelectSeq(moment, P)

IsTGate(o) == o.is_gate_op /\ (o.gate = "T" \/ o.gate = "Tinv")
IsXGate(o) == o.is_gate_op /\ o.gate = "X"
IsMeasurement(o) == o.is_gate_op /\ o.gate = "M"

\* the X gates state_preparation owes the string str on the qubits list
PrepGates(qubits, str) ==
    { [gate |-> "X", qubits |-> {qubits[i]}, is_gate_op |-> TRUE] : i \in Ones(str) }

\* the X gates in the first moment of circuit c
FirstMomentXGates(c) == { c[1][k] : k \in { h \in 1..Len(c[1]) : IsXGate(c[1][h]) } }

\* circuit after holds the T gates of circuit before, each where it was,
\* one moment further on, and no other T gate
SameTGatesShifted(before, after) ==
    /\ Len(after) > Len(before)
    /\ \A m \in 1..Len(before) : Keep(after[m + 1], IsTGate) = Keep(before[m], IsTGate)
    /\ \A m \in ({1} \cup ((Len(before) + 2)..Len(after))) : Keep(after[m], IsTGate) = <<>>

C10_FreshCircuitPerState ==
    /\ pc \in {"created", "tested"} => n_qubits \in {2, 3} /\ Len(initial_state) = n_qubits
    /\ pc = "created" =>
         /\ Positions(bbcircuit.circuit, IsXGate) = {}
         /\ Positions(bbcircuit.circuit, IsMeasurement) = {}
    /\ pc = "tested" =>
         \A c \in {bbcircuit.circuit, bbcircuit_modified.circuit} :
            LET fresh == create_BB_circuit(n_qubits, decomp_scenario, build).circuit
            IN  /\ Cardinality(Positions(c, IsXGate)) = Cardinality(Ones(initial_state))
                /\ FirstMomentXGates(c) = PrepGates(bbcircuit.qubits, initial_state)
                /\ Cardinality(Positions(c, IsMeasurement)) = n_qubits
                /\ Len(c) \in {Len(fresh) + 1, Len(fresh) + 2}
                /\ Len(c) = Len(fresh) + 2 => Keep(c[Len(c)], IsMeasurement) = c[Len(c)]
    /\ pc = "inner" /\ it > Len(initial_states) =>
         /\ Len(save_data.input) = 2 ^ n_qubits
         /\ Len(save_data.output_original) = 2 ^ n_qubits
         /\ Len(save_data.output_modified) = 2 ^ n_qubits
         /\ \A i \in 1..Len(save_data.input) :
              /\ Len(save_data.input[i]) = n_qubits
              /\ BinValue(save_data.input[i]) = i - 1
    /\ \A f \in 1..Len(saved) :
         /\ saved[f].n_qubits = f + 1
         /\ Len(saved[f].data.input) = 2 ^ saved[f].n_qubits
         /\ Len(saved[f].data.output_original) = 2 ^ saved[f].n_qubits
         /\ Len(saved[f].data.output_modified) = 2 ^ saved[f].n_qubits
    /\ pc = "done" => Len(saved) = 2

\* C10 witness: the last initial state of n_qubits = 3 has been run on a
\* circuit of its own, seven results are already gathered
C10_Witness ==
    /\ pc = "tested"
    /\ n_qubits = 3
    /\ initial_state = <<"1", "1", "1">>
    /\ Len(save_data.input) = 7
    /\ Len(saved) = 1
    /\ Cardinality(Positions(bbcircuit.circuit, IsMeasurement)) = 3

\* the operations of circuit c moment by moment, as one sequence
RECURSIVE Flattened(_)
Flattened(c) ==
    IF c = <<>> THEN <<>> ELSE Flattened(SubSeq(c, 1, Len(c) - 1)) \o c[Len(c)]

=============================================================================
